---------------------------- MODULE Spec2Model ----------------------------
(***************************************************************************)
(* Model of the indexing / search / duplicate-resolution core of           *)
(* ebook_toolbox:                                                          *)
(*   collect_local_ebooks.py   generate_file_list, search_file             *)
(*   collect_ebooks.py         the older search_file (same matcher)        *)
(*   find_duplicated_files.py  DuplicateFinder                             *)
(*   remove_duplicates_on_report.py                                        *)
(*                                                                         *)
(* Python strings are sequences of one-character strings, so that prefix   *)
(* tests, substring tests, splitting and normalisation are computed and    *)
(* not assumed.  A character outside ASCII is written by its code point,   *)
(* as in "U+4E2D".                                                         *)
(***************************************************************************)
EXTENDS Integers, Sequences, FiniteSets, TLC

VARIABLES
    script,    \* search side: which script runs, collect_local_ebooks or collect_ebooks
    disk,      \* search side: the set of e-book files present under the roots
    index,     \* search side: root -> contents of <root>/_file_list.txt, or NoFile
    cache,     \* search side: search_file._file_cache, or NoCache before it exists
    fsChanges, \* number of changes the environment made to either tree
    gens,      \* number of times generate_file_list wrote an index file
    last,      \* the last call made and what it returned
    ddisk,     \* duplicate side: the files under the finder's root
    fileIndex, \* DuplicateFinder.file_index (insertion-ordered dict)
    indexFile, \* DuplicateFinder.index_file on disk, or NoFile
    duplicates,\* the mapping find_duplicates returned last (insertion-ordered dict)
    report,    \* the Markdown report, a sequence of lines, or NoFile
    trash      \* paths remove_duplicates_on_report handed to send2trash

vars == <<script, disk, index, cache, fsChanges, gens, last, ddisk, fileIndex, indexFile,
          duplicates, report, trash>>

searchVars == <<script, disk, index, cache>>
dupVars == <<ddisk, fileIndex, indexFile, duplicates, report, trash>>

----------------------------------------------------------------------------
(* Bounds of the model.                                                    *)

\* how many times the environment may add, delete or rewrite a file
MaxFsChanges == 1
\* how many times an index file may be written
MaxGenerations == 2
\* modification times are drawn from 1..MaxTime
MaxTime == 3

\* the clock reading while the scripts run: later than every file's mtime
NowTime == MaxTime + 1

----------------------------------------------------------------------------
(* Python str operations.                                                  *)

RECURSIVE Concat(_)
\* ''.join(parts)
Concat(parts) ==
    IF parts = <<>> THEN <<>> ELSE Head(parts) \o Concat(Tail(parts))

\* s.startswith(p)
StartsWith(s, p) ==
    /\ Len(p) <= Len(s)
    /\ SubSeq(s, 1, Len(p)) = p

\* s.endswith(p)
EndsWith(s, p) ==
    /\ Len(p) <= Len(s)
    /\ SubSeq(s, Len(s) - Len(p) + 1, Len(s)) = p

\* p in s (substring test)
Contains(s, p) ==
    \E i \in 1..(Len(s) + 1) :
        /\ i + Len(p) - 1 <= Len(s)
        /\ SubSeq(s, i, i + Len(p) - 1) = p

\* the position of the first occurrence of p in s, 0 when there is none
Find(s, p) ==
    IF Contains(s, p)
    THEN CHOOSE i \in 1..(Len(s) + 1) :
            /\ i + Len(p) - 1 <= Len(s)
            /\ SubSeq(s, i, i + Len(p) - 1) = p
            /\ \A j \in 1..(i - 1) : SubSeq(s, j, j + Len(p) - 1) # p
    ELSE 0

\* the position of the last occurrence of the character c in s, 0 when none
RFind(s, c) ==
    IF \E i \in 1..Len(s) : s[i] = c
    THEN CHOOSE i \in 1..Len(s) : s[i] = c /\ \A j \in (i + 1)..Len(s) : s[j] # c
    ELSE 0

\* str.lower() of one character, as a string
LowerChar(c) ==
    CASE c = "A" -> <<"a">>
      [] c = "U+0130" -> <<"i", "U+0307">>   \* 'I' with dot above: two code points
      [] c = "B" -> <<"b">>
      [] c = "K" -> <<"k">>
      [] c = "X" -> <<"x">>
      [] OTHER -> <<c>>

\* s.lower()
PyLower(s) == Concat([i \in 1..Len(s) |-> LowerChar(s[i])])

AsciiLetters == {"a", "b", "c", "d", "e", "f", "i", "k", "l", "p", "q", "r", "s", "t",
                 "u", "x", "A", "B", "K", "X"}
AsciiDigits == {"0", "1", "2", "3", "4", "5", "6", "7", "8", "9"}
\* U+4E00..U+9FFF
CjkIdeographs == {"U+4E2D", "U+6587"}
\* letters outside ASCII; U+0307, a combining mark, is not among them
OtherLetters == {"U+0130"}
\* what the character class [\u4e00-\u9fff\w] matches among the characters used
KeptByPattern ==
    CjkIdeographs \cup AsciiLetters \cup AsciiDigits \cup OtherLetters \cup {"_"}

\* re.sub(r'[^\u4e00-\u9fff\w]', '', filename).lower()
clean_filename(filename) ==
    PyLower(SelectSeq(filename, LAMBDA c : c \in KeptByPattern))

\* name = clean_filename(filename); if not name: name = filename.lower()
SearchName(filename) ==
    IF clean_filename(filename) # <<>> THEN clean_filename(filename) ELSE PyLower(filename)

RECURSIVE Digits(_)
\* str(n) for a natural number
Digits(n) ==
    IF n < 10 THEN <<(<<"0", "1", "2", "3", "4", "5", "6", "7", "8", "9">>)[n + 1]>>
    ELSE Digits(n \div 10) \o Digits(n % 10)

----------------------------------------------------------------------------
(* pathlib operations on the string form of an absolute POSIX path.        *)

\* Path(p).name
PathName(p) == SubSeq(p, RFind(p, "/") + 1, Len(p))

\* Path(p).suffix: from the last dot of the name, unless the dot is the first
\* character of the name or the last one
PathSuffix(p) ==
    LET name == PathName(p)
        i == RFind(name, ".")
    IN  IF i > 1 /\ i < Len(name) THEN SubSeq(name, i, Len(name)) ELSE <<>>

\* Path(p).stem
PathStem(p) ==
    LET name == PathName(p)
        i == RFind(name, ".")
    IN  IF i > 1 /\ i < Len(name) THEN SubSeq(name, 1, i - 1) ELSE name

RECURSIVE SplitOn(_, _)
\* s.split(sep) for a non-empty separator
SplitOn(s, sep) ==
    LET i == Find(s, sep)
    IN  IF i = 0 THEN <<s>>
        ELSE <<SubSeq(s, 1, i - 1)>> \o SplitOn(SubSeq(s, i + Len(sep), Len(s)), sep)

\* Path(p).parts without the anchor '/'
PathParts(p) == SplitOn(SubSeq(p, 2, Len(p)), <<"/">>)

\* len(Path(p).parents)
NumParents(p) == Len(PathParts(p))

\* root / folder
JoinPath(root, folder) == root \o <<"/">> \o folder

\* p lies in the tree of the directory dir
IsUnder(p, dir) == StartsWith(p, dir \o <<"/">>)

----------------------------------------------------------------------------
(* The trees the search scripts run on.  A file is named by its position   *)
(* in SearchFiles; the position is also its rank in the order in which    *)
(* the operating system lists a directory.                                 *)

Root1 == <<"/", "r">>
Root2 == <<"/", "q">>
SearchRoots == {Root1, Root2}

EPUB == <<".", "e", "p", "u", "b">>
PDF == <<".", "p", "d", "f">>
TXT == <<".", "t", "x", "t">>
\* for ext in ['.epub', '.pdf', '.txt']
ExtPriority == <<EPUB, PDF, TXT>>

FolderAB == <<"a", "b">>
FolderC == <<"c">>

SearchFiles == <<
    [path |-> Root1 \o <<"/">> \o FolderAB \o <<"/", "a">> \o EPUB, size |-> 1, mtime |-> 2],
    [path |-> Root1 \o <<"/">> \o FolderAB \o <<"/", "A", " ", "b">> \o PDF, size |-> 2, mtime |-> 3],
    [path |-> Root1 \o <<"/">> \o FolderC \o <<"/", "a", "b">> \o EPUB, size |-> 1, mtime |-> 1],
    [path |-> Root1 \o <<"/">> \o FolderC \o <<"/", "b", "a">> \o TXT, size |-> 2, mtime |-> 1],
    [path |-> Root1 \o <<"/", "b", "-">> \o TXT, size |-> 1, mtime |-> 2],
    [path |-> Root2 \o <<"/", "a">> \o PDF, size |-> 2, mtime |-> 2],
    [path |-> Root2 \o <<"/", "-">> \o TXT, size |-> 1, mtime |-> 1],
    [path |-> Root2 \o <<"/", "b", "|">> \o TXT, size |-> 1, mtime |-> 1] >>

FileIds == 1..Len(SearchFiles)
\* the file that is not there when the Index Store is exercised: /r/c/ab.epub
InitiallyAbsent ==
    CHOOSE id \in FileIds :
        SearchFiles[id].path = Root1 \o <<"/">> \o FolderC \o <<"/", "a", "b">> \o EPUB

\* the titles searched for
Queries == { <<"a">>, <<"A", " ", "b">>, <<"b">>, <<"-">>, <<>> }

\* the values of folders_to_update; <<>> stands for None and for the empty list,
\* which the code does not tell apart (it only tests truthiness)
FolderArgs == { <<>>, <<FolderAB>>, <<FolderC>> }

\* the string "not found" returned by search_file
NotFound == <<"U+672A", "U+627E", "U+5230">>

\* '_file_list.txt'
FileListName == <<"_", "f", "i", "l", "e", "_", "l", "i", "s", "t">> \o TXT

FileListPath(root) == JoinPath(root, FileListName)

AbsentFile == [exists |-> FALSE, lines |-> <<>>, mtime |-> 0]

----------------------------------------------------------------------------
(* Path Filter.                                                            *)

SKIP_DIRS == {
    <<"S", "y", "s", "t", "e", "m", " ", "V", "o", "l", "u", "m", "e", " ", "I", "n", "f", "o", "r", "m", "a", "t", "i", "o", "n">>,
    <<"$", "R", "e", "c", "y", "c", "l", "e", ".", "B", "i", "n">>,
    <<"$", "R", "E", "C", "Y", "C", "L", "E", ".", "B", "I", "N">>,
    <<"C", "o", "n", "f", "i", "g", ".", "M", "s", "i">>,
    <<"R", "e", "c", "o", "v", "e", "r", "y">>,
    <<"D", "o", "c", "u", "m", "e", "n", "t", "s", " ", "a", "n", "d", " ", "S", "e", "t", "t", "i", "n", "g", "s">>,
    <<"P", "e", "r", "f", "L", "o", "g", "s">>,
    <<"P", "r", "o", "g", "r", "a", "m", " ", "F", "i", "l", "e", "s">>,
    <<"P", "r", "o", "g", "r", "a", "m", " ", "F", "i", "l", "e", "s", " ", "(", "x", "8", "6", ")">>,
    <<"W", "i", "n", "d", "o", "w", "s">> }

\* a filter that leaves the file name untested
IsValidFileFoldersOnly(path) ==
    LET parts == PathParts(path)
    IN  ~ \E i \in 1..(Len(parts) - 1) :
            \/ StartsWith(parts[i], <<"$">>)
            \/ parts[i] \in SKIP_DIRS

\* _is_valid_file(path) for a path that is a regular file: no part starts
\* with '$' and no part is one of SKIP_DIRS
IsValidFile(path) ==
    LET parts == PathParts(path)
    IN  ~ \E i \in 1..Len(parts) :
            \/ StartsWith(parts[i], <<"$">>)
            \/ parts[i] \in SKIP_DIRS

----------------------------------------------------------------------------
(* Index Store of the search scripts: <root>/_file_list.txt.               *)

RECURSIVE Ascending(_)
\* the members of a set of numbers, smallest first
Ascending(S) ==
    IF S = {} THEN <<>>
    ELSE LET m == CHOOSE x \in S : \A y \in S : x <= y
         IN  <<m>> \o Ascending(S \ {m})

\* the order in which a directory walk yields the files of S: the listing
\* order of the operating system, taken to be the same at every walk
WalkOrder(S) == Ascending(S)

\* f"{p}|{stat.st_size}|{stat.st_mtime}", kept as its three fields
StatLine(id) ==
    [path |-> SearchFiles[id].path, size |-> SearchFiles[id].size,
     mtime |-> SearchFiles[id].mtime]

RECURSIVE SumLen(_)
SumLen(q) == IF q = <<>> THEN 0 ELSE Head(q) + SumLen(Tail(q))

\* st_size of the index file: '\n'.join(lines), every character one byte,
\* the modification time printed as a float ("2.0")
IndexBytes(lines) ==
    IF lines = <<>> THEN 0
    ELSE SumLen([i \in 1..Len(lines) |->
                    Len(lines[i].path) + 1 + Len(Digits(lines[i].size)) + 1
                    + Len(Digits(lines[i].mtime)) + 2])
         + (Len(lines) - 1)

\* folder_path.rglob(f'*{ext}') filtered by _is_valid_file, as index lines.
\* The index file lies in the root and ends in .txt: once it exists a walk
\* of the root yields it too.
ScanDir(dir, ext, dsk, idx) ==
    LET ids == { id \in dsk : /\ IsUnder(SearchFiles[id].path, dir)
                              /\ EndsWith(PathName(SearchFiles[id].path), ext)
                              /\ IsValidFile(SearchFiles[id].path) }
        walked == WalkOrder(ids)
        found == [i \in 1..Len(walked) |-> StatLine(walked[i])]
        self == IF /\ dir \in SearchRoots
                   /\ idx[dir].exists
                   /\ ext = TXT
                   /\ IsValidFile(FileListPath(dir))
                THEN <<[path |-> FileListPath(dir),
                        size |-> IndexBytes(idx[dir].lines),
                        mtime |-> idx[dir].mtime]>>
                ELSE <<>>
    IN  self \o found

\* folder_path.exists()
DirExists(dir, dsk) == \E id \in dsk : IsUnder(SearchFiles[id].path, dir)

\* line.strip().split('|') yields exactly three fields
WellFormed(line) == ~ Contains(line.path, <<"|">>)

\* not any(folder.lower() in str(path).lower() for folder in folders_to_update)
OutsideFolders(line, folders) ==
    ~ \E k \in 1..Len(folders) : Contains(PyLower(line.path), PyLower(folders[k]))

\* existing_files[str(path)] = ... on an insertion-ordered dict
PutLine(d, line) ==
    IF \E i \in 1..Len(d) : d[i].path = line.path
    THEN LET i == CHOOSE j \in 1..Len(d) : d[j].path = line.path
         IN  [d EXCEPT ![i] = line]
    ELSE Append(d, line)

RECURSIVE PutLines(_, _)
PutLines(d, lines) ==
    IF lines = <<>> THEN d ELSE PutLines(PutLine(d, Head(lines)), Tail(lines))

\* the records read back from the existing index when a partial update is
\* asked for; a malformed line is skipped
ExistingFiles(file, folders) ==
    IF file.exists /\ folders # <<>>
    THEN PutLines(<<>>, SelectSeq(file.lines,
                    LAMBDA l : WellFormed(l) /\ OutsideFolders(l, folders)))
    ELSE <<>>

RECURSIVE ScanFolders(_, _, _, _, _)
\* for folder in folders_to_update: if folder_path.exists(): rglob ...
ScanFolders(root, folders, ext, dsk, idx) ==
    IF folders = <<>> THEN <<>>
    ELSE (IF DirExists(JoinPath(root, Head(folders)), dsk)
          THEN ScanDir(JoinPath(root, Head(folders)), ext, dsk, idx)
          ELSE <<>>)
         \o ScanFolders(root, Tail(folders), ext, dsk, idx)

\* the list files collected by the loop over the three extensions
ScannedFiles(root, folders, dsk, idx) ==
    Concat([k \in 1..Len(ExtPriority) |->
        IF folders # <<>>
        THEN ScanFolders(root, folders, ExtPriority[k], dsk, idx)
        ELSE ScanDir(root, ExtPriority[k], dsk, idx)])

\* the file generate_file_list(search_dir, folders_to_update) writes
generate_file_list(root, folders, dsk, idx) ==
    [exists |-> TRUE,
     lines |-> ExistingFiles(idx[root], folders)
               \o ScannedFiles(root, folders, dsk, idx),
     mtime |-> NowTime]

\* not file_list_path.exists() or file_list_path.stat().st_size == 0
check_file_list_update(file) == ~ file.exists \/ IndexBytes(file.lines) = 0

----------------------------------------------------------------------------
(* Search Matcher.                                                         *)

NoCache == [built |-> FALSE, entries |-> [e \in {EPUB, PDF, TXT} |-> <<>>]]

\* the first malformed line of the index, 0 when every line is well formed
FirstMalformed(lines) ==
    IF \E i \in 1..Len(lines) : ~ WellFormed(lines[i])
    THEN CHOOSE i \in 1..Len(lines) :
            ~ WellFormed(lines[i]) /\ \A j \in 1..(i - 1) : WellFormed(lines[j])
    ELSE 0

\* (str(path), clean_filename(path.stem), int(size), float(mtime))
CacheEntry(line) ==
    [path |-> line.path, stem |-> clean_filename(PathStem(line.path)),
     size |-> line.size, mtime |-> line.mtime]

\* search_file._file_cache after the loop over the lines of the index: the
\* loop stops at the first malformed line, whose unpacking raises
BuildCache(lines) ==
    LET bad == FirstMalformed(lines)
        read == IF bad = 0 THEN lines ELSE SubSeq(lines, 1, bad - 1)
    IN  [built |-> TRUE,
         entries |-> [e \in {EPUB, PDF, TXT} |->
            LET mine == SelectSeq(read, LAMBDA l : PyLower(PathSuffix(l.path)) = e)
            IN  [i \in 1..Len(mine) |-> CacheEntry(mine[i])]]]

\* clean_stem.startswith(name)
StemMatchesContains(stem, name) == Contains(stem, name)
StemMatches(stem, name) == StartsWith(stem, name)

\* key=lambda x: (x[2], x[3])
MatchKeyTimeFirst(m) == <<m.mtime, m.size>>
MatchKey(m) == <<m.size, m.mtime>>

\* tuple comparison a <= b
PairLE(a, b) == a[1] < b[1] \/ (a[1] = b[1] /\ a[2] <= b[2])

\* max(matches, key=...): the first of the maximal elements
MaxMatch(matches) ==
    LET i == CHOOSE j \in 1..Len(matches) :
                /\ \A k \in 1..Len(matches) : PairLE(MatchKey(matches[k]), MatchKey(matches[j]))
                /\ \A k \in 1..(j - 1) : MatchKey(matches[k]) # MatchKey(matches[j])
    IN  matches[i]

\* the matches one tier adds to the list
TierMatches(entries, ext, name) ==
    SelectSeq(entries[ext], LAMBDA e : StemMatches(e.stem, name))

RECURSIVE MatchTiers(_, _, _, _)
\* the loop over the tiers from tier k on, matches being the list so far
MatchTiers(entries, name, k, matches) ==
    IF k > Len(ExtPriority) THEN NotFound
    ELSE LET m == matches \o TierMatches(entries, ExtPriority[k], name)
         IN  IF m # <<>> THEN MaxMatch(m).path
             ELSE MatchTiers(entries, name, k + 1, m)

\* a matcher that looks at every tier before it chooses
SearchMatchAllTiers(entries, name) ==
    LET m == Concat([k \in 1..Len(ExtPriority) |-> TierMatches(entries, ExtPriority[k], name)])
    IN  IF m # <<>> THEN MaxMatch(m).path ELSE NotFound
\* the part of search_file that answers from the cache
SearchMatch(entries, name) == MatchTiers(entries, name, 1, <<>>)

\* not hasattr(search_file, '_file_cache')
CacheMissingAlways(c) == TRUE
CacheMissing(c) == ~ c.built

----------------------------------------------------------------------------
(* The search scripts as a state machine.                                  *)

Local == "collect_local_ebooks"
Older == "collect_ebooks"

ValueError == <<"ValueError">>

\* the duplicate finder's side while the search scripts run
DupIdle ==
    /\ ddisk = {}
    /\ fileIndex = <<>>
    /\ indexFile = [exists |-> FALSE, root_dir |-> <<>>, files |-> <<>>]
    /\ duplicates = <<>>
    /\ report = [exists |-> FALSE, lines |-> <<>>]
    /\ trash = <<>>

\* a fresh process: no index file yet, no cache, a tree that lacks at most
\* one of the files
SearchInit ==
    /\ script \in {Local, Older}
    /\ disk \in {FileIds} \cup {FileIds \ {id} : id \in FileIds}
    /\ index = [r \in SearchRoots |-> AbsentFile]
    /\ cache = NoCache
    /\ fsChanges = 0
    /\ gens = 0
    /\ last = [op |-> "start", filename |-> <<>>, root |-> <<>>, folders |-> <<>>,
               ret |-> <<>>]
    /\ DupIdle

\* collect_local_ebooks.search_file(filename, search_dir, folders_to_update)
SearchFile(filename, root, folders) ==
    LET missing == CacheMissing(cache)
        regen == missing /\ (check_file_list_update(index[root]) \/ folders # <<>>)
        file == IF regen THEN generate_file_list(root, folders, disk, index)
                ELSE index[root]
        cache1 == IF missing THEN BuildCache(file.lines) ELSE cache
        raised == missing /\ FirstMalformed(file.lines) # 0
    IN  /\ script = Local
        /\ regen => gens < MaxGenerations
        /\ gens' = IF regen THEN gens + 1 ELSE gens
        /\ index' = [index EXCEPT ![root] = file]
        /\ cache' = cache1
        /\ last' = [op |-> "search", filename |-> filename, root |-> root,
                    folders |-> folders,
                    ret |-> IF raised THEN ValueError
                            ELSE SearchMatch(cache1.entries, SearchName(filename))]
        /\ UNCHANGED <<script, disk, fsChanges>>
        /\ UNCHANGED dupVars

\* collect_ebooks.search_file(filename, search_dir)
SearchFileOlder(filename, root) ==
    LET regen == check_file_list_update(index[root])
        file == IF regen THEN generate_file_list(root, <<>>, disk, index)
                ELSE index[root]
        missing == CacheMissing(cache)
        cache1 == IF missing THEN BuildCache(file.lines) ELSE cache
        raised == missing /\ FirstMalformed(file.lines) # 0
    IN  /\ script = Older
        /\ regen => gens < MaxGenerations
        /\ gens' = IF regen THEN gens + 1 ELSE gens
        /\ index' = [index EXCEPT ![root] = file]
        /\ cache' = cache1
        /\ last' = [op |-> "search", filename |-> filename, root |-> root,
                    folders |-> <<>>,
                    ret |-> IF raised THEN ValueError
                            ELSE SearchMatch(cache1.entries, SearchName(filename))]
        /\ UNCHANGED <<script, disk, fsChanges>>
        /\ UNCHANGED dupVars

\* a direct call of generate_file_list, as the scripts' main blocks make
GenerateFileList(root, folders) ==
    /\ script \in {Local, Older}
    /\ script = Older => folders = <<>>
    /\ gens < MaxGenerations
    /\ gens' = gens + 1
    /\ index' = [index EXCEPT ![root] =
                    generate_file_list(root, folders, disk, index)]
    /\ last' = [op |-> "generate", filename |-> <<>>, root |-> root,
                folders |-> folders, ret |-> FileListPath(root)]
    /\ UNCHANGED <<script, disk, cache, fsChanges>>
    /\ UNCHANGED dupVars

\* the environment adds a file to a tree
CreateFile(id) ==
    /\ script \in {Local, Older}
    /\ fsChanges < MaxFsChanges
    /\ id \notin disk
    /\ disk' = disk \cup {id}
    /\ fsChanges' = fsChanges + 1
    /\ UNCHANGED gens
    /\ last' = [op |-> "env", filename |-> <<>>, root |-> <<>>, folders |-> <<>>,
                ret |-> <<>>]
    /\ UNCHANGED <<script, index, cache>>
    /\ UNCHANGED dupVars

\* the environment deletes a file of a tree
DeleteFile(id) ==
    /\ script \in {Local, Older}
    /\ fsChanges < MaxFsChanges
    /\ id \in disk
    /\ disk' = disk \ {id}
    /\ fsChanges' = fsChanges + 1
    /\ UNCHANGED gens
    /\ last' = [op |-> "env", filename |-> <<>>, root |-> <<>>, folders |-> <<>>,
                ret |-> <<>>]
    /\ UNCHANGED <<script, index, cache>>
    /\ UNCHANGED dupVars

SearchNext ==
    \/ \E q \in Queries, r \in SearchRoots, f \in FolderArgs : SearchFile(q, r, f)
    \/ \E q \in Queries, r \in SearchRoots : SearchFileOlder(q, r)
    \/ \E r \in SearchRoots, f \in FolderArgs : GenerateFileList(r, f)

\* the search scripts on trees that do not change while they run
SearchSpec == SearchInit /\ [][SearchNext]_vars

\* trees that lack one file, or a second tree without any file; no index
\* file yet
IndexInit ==
    /\ script \in {Local, Older}
    /\ disk \in { FileIds \ {InitiallyAbsent},
                  { id \in FileIds : IsUnder(SearchFiles[id].path, Root1) } }
    /\ index = [r \in SearchRoots |-> AbsentFile]
    /\ cache = NoCache
    /\ fsChanges = 0
    /\ gens = 0
    /\ last = [op |-> "start", filename |-> <<>>, root |-> <<>>, folders |-> <<>>,
               ret |-> <<>>]
    /\ DupIdle

IndexNext ==
    \/ \E r \in SearchRoots, f \in FolderArgs : GenerateFileList(r, f)
    \/ \E id \in FileIds : CreateFile(id)
    \/ \E id \in FileIds : DeleteFile(id)

\* the Index Store alone, rebuilt while the trees change
IndexSpec == IndexInit /\ [][IndexNext]_vars

----------------------------------------------------------------------------
(* Claims about the Search Matcher, checked under SearchSpec.              *)

\* the last call was a search that returned
Searched == last.op = "search" /\ last.ret # ValueError

\* the key the last search looked for
LastName == SearchName(last.filename)

\* the cached entries of tier k whose normalized stem, computed again from
\* the path, starts with the key
TierHits(k) ==
    { e \in { cache.entries[ExtPriority[k]][i] : i \in 1..Len(cache.entries[ExtPriority[k]]) } :
        StartsWith(clean_filename(PathStem(e.path)), LastName) }

Tiers == 1..Len(ExtPriority)

\* C1: when some tier holds an entry whose normalized stem starts with the
\* normalized query, search_file returns an entry of the first such tier in
\* the order .epub, .pdf, .txt, whatever the size and age of the matches of
\* the later tiers.
C1_TierPrecedence ==
    Searched =>
        \A k \in Tiers :
            (TierHits(k) # {} /\ \A j \in 1..(k - 1) : TierHits(j) = {})
                => last.ret \in { e.path : e \in TierHits(k) }

\* a search answered from the .epub tier although a .pdf match is larger and
\* newer than the entry returned
C1_Witness ==
    /\ Searched
    /\ \E e \in TierHits(1), f \in TierHits(2) :
          e.path = last.ret /\ f.size > e.size /\ f.mtime > e.mtime

\* the matches of the tier the result belongs to
WinningHits ==
    IF \E k \in Tiers : TierHits(k) # {}
    THEN TierHits(CHOOSE k \in Tiers : TierHits(k) # {} /\ \A j \in 1..(k - 1) : TierHits(j) = {})
    ELSE {}

\* C2: the entry returned is, among the matches of the winning tier, one of
\* largest size and, among those of largest size, one modified most recently.
C2_TieBreak ==
    (Searched /\ last.ret # NotFound) =>
        \E e \in WinningHits :
            /\ e.path = last.ret
            /\ \A m \in WinningHits :
                  /\ m.size <= e.size
                  /\ m.size = e.size => m.mtime <= e.mtime

\* the larger file won against a smaller one that is newer
C2_Witness ==
    /\ Searched
    /\ \E e \in WinningHits, m \in WinningHits :
          e.path = last.ret /\ m.size < e.size /\ m.mtime > e.mtime

\* of two matches of equal size the newer one was returned
C2_TieReached ==
    /\ Searched
    /\ \E e \in WinningHits, m \in WinningHits :
          e.path = last.ret /\ m.size = e.size /\ m.mtime < e.mtime

\* C3: search_file returns the not-found string exactly when no cached entry
\* of any tier has a normalized stem that starts with the normalized query,
\* and otherwise the path of a cached entry whose normalized stem starts
\* with it.
C3_NotFoundIff ==
    Searched =>
        /\ last.ret = NotFound <=> \A k \in Tiers : TierHits(k) = {}
        /\ last.ret # NotFound => \E k \in Tiers : last.ret \in { e.path : e \in TierHits(k) }

\* nothing was found although the key occurs inside a cached stem
C3_Witness ==
    /\ Searched
    /\ last.ret = NotFound
    /\ LastName # <<>>
    /\ \E x \in {EPUB, PDF, TXT} : \E i \in 1..Len(cache.entries[x]) :
          Contains(cache.entries[x][i].stem, LastName)

\* C4: a search for root R only returns paths of R's tree, never an entry
\* cached for another root.
C4_PerRoot ==
    (Searched /\ last.ret # NotFound) => IsUnder(last.ret, last.root)

\* C5: once the cache exists no call changes it.
C5_CacheFrozen == [][cache.built => cache' = cache]_vars

\* a search answered from the cache after the index it was loaded from had
\* been rewritten with other contents
C5_Witness ==
    /\ last.op = "search"
    /\ cache.built
    /\ index[last.root].exists
    /\ \A r \in SearchRoots : index[r].exists => BuildCache(index[r].lines) # cache

----------------------------------------------------------------------------
(* Claims about the Index Store, checked under IndexSpec.                  *)

LinesOf(file) == { file.lines[i] : i \in 1..Len(file.lines) }

\* what a walk of the directory dir finds in the tree dsk
FreshScan(dir, dsk) ==
    { StatLine(id) : id \in { x \in dsk :
        /\ IsUnder(SearchFiles[x].path, dir)
        /\ IsValidFile(SearchFiles[x].path)
        /\ \E k \in Tiers : EndsWith(SearchFiles[x].path, ExtPriority[k]) } }

\* C6: generate_file_list(root, [X]) run on an existing index keeps every
\* record whose path does not lie under root/X and replaces the records
\* under root/X by the records of a fresh scan of root/X.
C6_PartialRebuild ==
    [][ (/\ last'.op = "generate"
         /\ Len(last'.folders) = 1
         /\ index[last'.root].exists)
        => LET r == last'.root
               X == JoinPath(r, last'.folders[1])
           IN  /\ { l \in LinesOf(index'[r]) : ~ IsUnder(l.path, X) }
                    = { l \in LinesOf(index[r]) : ~ IsUnder(l.path, X) }
               /\ { l \in LinesOf(index'[r]) : IsUnder(l.path, X) } = FreshScan(X, disk)
      ]_vars

----------------------------------------------------------------------------
(* Duplicate Grouper: DuplicateFinder of find_duplicated_files.py.         *)

\* the root the finder is made for
DupRoot == <<"/", "d">>

\* a root directory that does not exist
MissingRoot == <<"/", "n">>

\* the files of the tree, in listing order; the files named x have two
\* bytes each and share the index key 'x_2'
DupFiles == <<
    [path |-> <<"/", "d", "/", "x">>, content |-> <<0, 1>>],
    [path |-> <<"/", "d", "/", "k", "/", "x">>, content |-> <<0, 1>>],
    [path |-> <<"/", "d", "/", "t", "/", "x">>, content |-> <<0, 1>>],
    [path |-> <<"/", "d", "/", "t", "/", "k", "k", "/", "x">>, content |-> <<1, 0>>],
    [path |-> <<"/", "d", "/", "[", "t", "]", " ", "k", "/", "x">>, content |-> <<1, 0>>],
    [path |-> <<"/", "d", "/", "k", "/", "y">>, content |-> <<1>>] >>

DupIds == 1..Len(DupFiles)

\* what the environment writes when it rewrites a file: as many bytes, other
\* content
Rewritten(content) == [i \in 1..Len(content) |-> 1 - content[i]]

DupPath(id) == DupFiles[id].path

\* the files present in a tree
Present(dd) == { id \in DupIds : dd[id].present }

\* path.exists() for the path string p: a file, or a directory above one
PathExists(p, dd) ==
    \E id \in Present(dd) : DupPath(id) = p \/ IsUnder(DupPath(id), p)

\* FileInfo(path, size, name) of a file, from stat
FileInfoOf(id, dd) ==
    [path |-> DupPath(id), size |-> Len(dd[id].content), name |-> PathName(DupPath(id))]

\* a key without the separator
IndexKeyJoined(info) == info.name \o Digits(info.size)

\* key = f"{file_info.name}_{file_info.size}"
IndexKey(info) == info.name \o <<"_">> \o Digits(info.size)

\* self.file_index[key].append(file_info) on an insertion-ordered dict
IndexAdd(fi, info) ==
    LET key == IndexKey(info)
    IN  IF \E i \in 1..Len(fi) : fi[i].key = key
        THEN LET i == CHOOSE j \in 1..Len(fi) : fi[j].key = key
             IN  [fi EXCEPT ![i].files = Append(@, info)]
        ELSE Append(fi, [key |-> key, files |-> <<info>>])

RECURSIVE IndexAddAll(_, _)
IndexAddAll(fi, infos) ==
    IF infos = <<>> THEN fi ELSE IndexAddAll(IndexAdd(fi, Head(infos)), Tail(infos))

\* the files self.root_dir.rglob("*") or self.root_dir.glob("*") yields
Globbed(root, recursive, dd) ==
    { id \in Present(dd) :
        /\ IsUnder(DupPath(id), root)
        /\ recursive \/ NumParents(DupPath(id)) = NumParents(root) + 1 }

\* the position of the first file whose is_file() raises PermissionError, 0
\* when there is none
FirstDenied(walked, dd) ==
    IF \E i \in 1..Len(walked) : dd[walked[i]].denied
    THEN CHOOSE i \in 1..Len(walked) :
            dd[walked[i]].denied /\ \A j \in 1..(i - 1) : ~ dd[walked[j]].denied
    ELSE 0

\* build_file_index(recursive): adds every file found to self.file_index;
\* file_path.is_file() is outside the try block, so the loop ends at the
\* first file for which it raises
build_file_index(fi, root, recursive, dd) ==
    LET walked == WalkOrder(Globbed(root, recursive, dd))
        bad == FirstDenied(walked, dd)
        read == IF bad = 0 THEN walked ELSE SubSeq(walked, 1, bad - 1)
    IN  IndexAddAll(fi, [i \in 1..Len(read) |-> FileInfoOf(read[i], dd)])

\* build_file_index(recursive) raises PermissionError
BuildRaises(root, recursive, dd) ==
    \E id \in Globbed(root, recursive, dd) : dd[id].denied

\* save_index(): the JSON document written, FileInfo as [path, size, name]
save_index(fi, root) ==
    [exists |-> TRUE,
     root_dir |-> root,
     files |-> [i \in 1..Len(fi) |->
                  [key |-> fi[i].key,
                   files |-> [j \in 1..Len(fi[i].files) |->
                                <<fi[i].files[j].path, fi[i].files[j].size,
                                  fi[i].files[j].name>>]]]]

NoIndexFile == [exists |-> FALSE, root_dir |-> <<>>, files |-> <<>>]

\* a loader that takes the index file whatever root it records
LoadSucceedsAnyRoot(file, root) == file.exists

\* load_index() returns True
LoadSucceeds(file, root) == file.exists /\ file.root_dir = root

\* the file_index load_index() installs
LoadedIndex(file) ==
    [i \in 1..Len(file.files) |->
        [key |-> file.files[i].key,
         files |-> [j \in 1..Len(file.files[i].files) |->
                      [path |-> file.files[i].files[j][1],
                       size |-> file.files[i].files[j][2],
                       name |-> file.files[i].files[j][3]]]]]

RECURSIVE Md5From(_, _)
Md5From(h, bytes) ==
    IF bytes = <<>> THEN h ELSE Md5From(3 * h + Head(bytes) + 1, Tail(bytes))

\* _calculate_file_hash(path): the digest of the whole content, read chunk
\* by chunk; distinct contents of the model get distinct digests
calculate_file_hash(id, dd) == Md5From(0, dd[id].content)

\* the file a path of the index names
IdOf(p) == CHOOSE id \in DupIds : DupPath(id) = p

\* content_groups[file_hash].append(file_info) on an insertion-ordered dict
HashAdd(groups, h, info) ==
    IF \E i \in 1..Len(groups) : groups[i].hash = h
    THEN LET i == CHOOSE j \in 1..Len(groups) : groups[j].hash = h
         IN  [groups EXCEPT ![i].files = Append(@, info)]
    ELSE Append(groups, [hash |-> h, files |-> <<info>>])

\* a file system on which every file can be opened
OpensAlways(id, dd) == TRUE

\* file_path.open('rb') succeeds
Opens(id, dd) == dd[id].readable

RECURSIVE HashAddAll(_, _, _)
HashAddAll(groups, infos, dd) ==
    IF infos = <<>> THEN groups
    ELSE IF ~ Opens(IdOf(Head(infos).path), dd)
         THEN HashAddAll(groups, Tail(infos), dd)   \* except (PermissionError, OSError)
         ELSE HashAddAll(HashAdd(groups, calculate_file_hash(IdOf(Head(infos).path), dd),
                                 Head(infos)),
                         Tail(infos), dd)

\* a grouping that does not look at the content
GroupByNothing(files, dd) == <<files>>
\* _group_by_content(files): list(content_groups.values())
group_by_content(files, dd) ==
    LET groups == HashAddAll(<<>>, files, dd)
    IN  [i \in 1..Len(groups) |-> groups[i].files]

\* the values of include_path and exclude_path: None, one keyword, or a list
NoneArg == [tag |-> "None", words |-> <<>>]
StrArg(w) == [tag |-> "str", words |-> <<w>>]
ListArg(ws) == [tag |-> "list", words |-> ws]

\* [x] if isinstance(x, str) else x, None and [] being falsy alike
KeywordList(arg) == arg.words

\* any(kw in str(f.path) for kw in keywords if kw)
HasKeyword(path, keywords) ==
    \E i \in 1..Len(keywords) : keywords[i] # <<>> /\ Contains(path, keywords[i])

\* min(paths, key=lambda p: len(str(p))): the first of the shortest
FirstShortest(paths) ==
    paths[CHOOSE i \in 1..Len(paths) :
            /\ \A j \in 1..Len(paths) : Len(paths[i]) <= Len(paths[j])
            /\ \A j \in 1..(i - 1) : Len(paths[j]) > Len(paths[i])]

\* max(paths, key=lambda p: len(str(p))): the first of the longest
FirstLongest(paths) ==
    paths[CHOOSE i \in 1..Len(paths) :
            /\ \A j \in 1..Len(paths) : Len(paths[i]) >= Len(paths[j])
            /\ \A j \in 1..(i - 1) : Len(paths[j]) < Len(paths[i])]

\* the list the exclusion rule leaves
AfterExclude(files, exclude) ==
    LET candidates == SelectSeq(files, LAMBDA f : ~ HasKeyword(f.path, KeywordList(exclude)))
    IN  IF KeywordList(exclude) # <<>> /\ candidates # <<>> THEN candidates ELSE files

\* an inclusion rule that narrows nothing
AfterIncludeAll(files, include) == files

\* the list the inclusion rule leaves
AfterInclude(files, include) ==
    LET included == SelectSeq(files, LAMBDA f : HasKeyword(f.path, KeywordList(include)))
    IN  IF KeywordList(include) # <<>> /\ included # <<>> THEN included ELSE files

\* a selection that leaves the exclusion rule out
SelectFileNoExclude(files, include, exclude, shortest) ==
    LET final == AfterInclude(files, include)
        paths == [i \in 1..Len(final) |-> final[i].path]
    IN  IF shortest THEN FirstShortest(paths) ELSE FirstLongest(paths)
\* _select_file(files, include_path, exclude_path, shortest_path)
select_file(files, include, exclude, shortest) ==
    LET final == AfterInclude(AfterExclude(files, exclude), include)
        paths == [i \in 1..Len(final) |-> final[i].path]
    IN  IF shortest THEN FirstShortest(paths) ELSE FirstLongest(paths)

\* a removal list that keeps the selected file in it
RemovalListAll(group, selected) == [i \in 1..Len(group) |-> group[i].path]
\* [f.path for f in group if f.path != selected]
RemovalList(group, selected) ==
    LET rest == SelectSeq(group, LAMBDA f : f.path # selected)
    IN  [i \in 1..Len(rest) |-> rest[i].path]

\* duplicates[str(selected)] = [...] on an insertion-ordered dict
DictSet(d, key, value) ==
    IF \E i \in 1..Len(d) : d[i].kept = key
    THEN LET i == CHOOSE j \in 1..Len(d) : d[j].kept = key
         IN  [d EXCEPT ![i].removed = value]
    ELSE Append(d, [kept |-> key, removed |-> value])

RECURSIVE RecordGroupsOfAnySize(_, _, _)
\* a loop that records a group of one file too
RecordGroupsOfAnySize(dups, groups, a) ==
    IF groups = <<>> THEN dups
    ELSE LET group == Head(groups)
             selected == select_file(group, a.include, a.exclude, a.shortest)
         IN  RecordGroupsOfAnySize(DictSet(dups, selected, RemovalList(group, selected)),
                                   Tail(groups), a)

RECURSIVE RecordGroups(_, _, _)
\* for group in file_groups: if len(group) > 1: select and record
RecordGroups(dups, groups, a) ==
    IF groups = <<>> THEN dups
    ELSE LET group == Head(groups)
             selected == select_file(group, a.include, a.exclude, a.shortest)
         IN  RecordGroups(
                 IF Len(group) > 1
                 THEN DictSet(dups, selected, RemovalList(group, selected))
                 ELSE dups,
                 Tail(groups), a)

\* a filter that does not test whether the path exists
StillThereUntested(f, root, recursive, dd) ==
    recursive \/ NumParents(f.path) <= NumParents(root)

\* f.path.exists() and (recursive or len(f.path.parents) <= len(self.root_dir.parents))
StillThere(f, root, recursive, dd) ==
    /\ PathExists(f.path, dd)
    /\ recursive \/ NumParents(f.path) <= NumParents(root)

RECURSIVE GroupBuckets(_, _, _, _, _)
\* the loop of find_duplicates over self.file_index.items()
GroupBuckets(dups, fi, root, a, dd) ==
    IF fi = <<>> THEN dups
    ELSE LET files == Head(fi).files
             existing == SelectSeq(files, LAMBDA f : StillThere(f, root, a.recursive, dd))
             groups == IF a.compare THEN group_by_content(existing, dd) ELSE <<existing>>
         IN  GroupBuckets(
                 IF Len(files) > 1 /\ Len(existing) > 1
                 THEN RecordGroups(dups, groups, a)
                 ELSE dups,
                 Tail(fi), root, a, dd)

\* the index handling of find_duplicates raises
FindRaises(fi, file, root, a, dd) ==
    IF a.rebuild THEN BuildRaises(root, TRUE, dd)
    ELSE fi = <<>> /\ ~ LoadSucceeds(file, root) /\ BuildRaises(root, a.recursive, dd)

\* an index handling that scans the tree whatever is persisted
IndexAfterAlwaysScan(fi, file, root, a, dd) ==
    build_file_index(<<>>, root, a.rebuild \/ a.recursive, dd)

\* self.file_index after the index handling of find_duplicates
IndexAfter(fi, file, root, a, dd) ==
    IF a.rebuild THEN build_file_index(<<>>, root, TRUE, dd)     \* _rebuild_index()
    ELSE IF fi # <<>> THEN fi
    ELSE IF LoadSucceeds(file, root) THEN LoadedIndex(file)
    ELSE build_file_index(fi, root, a.recursive, dd)

\* self.index_file after the index handling of find_duplicates
IndexFileAfter(fi, file, root, a, dd) ==
    IF FindRaises(fi, file, root, a, dd)
    THEN IF a.rebuild THEN NoIndexFile ELSE file       \* unlinked, not saved
    ELSE IF a.rebuild \/ (fi = <<>> /\ ~ LoadSucceeds(file, root))
    THEN save_index(IndexAfter(fi, file, root, a, dd), root)
    ELSE file

\* a path inside the tree
IndexFileInTree == <<"/", "d", "/", "x">>

\* illegal_chars = '<>:"/\\|?*'
IllegalChars == {"<", ">", ":", "\"", "/", "\\", "|", "?", "*"}

\* if len(full_path) > 100
NameLimit == 100

\* _generate_index_name(path) for a resolved path.  The md5 digest of a long
\* name is taken to be free of collisions: it stands for the name it was
\* computed from.
generate_index_name(path) ==
    LET full_path == [i \in 1..Len(path) |-> IF path[i] \in IllegalChars THEN "_" ELSE path[i]]
    IN  IF Len(full_path) > NameLimit THEN <<"md5">> \o full_path ELSE full_path

\* self.index_file and the report, both in the folder 'output' next to the
\* script, which is not under the root
index_file == <<"/", "o", "/", "i">>
report_file == <<"/", "o", "/", "m">>

\* p.unlink(): the tree after it
Unlink(p, dd) ==
    [id \in DupIds |->
        IF DupPath(id) = p THEN [dd[id] EXCEPT !.present = FALSE] ELSE dd[id]]

\* p.open('w') and a write: the tree after it; a file of the tree at p loses
\* its bytes
Written(p, dd) ==
    [id \in DupIds |->
        IF DupPath(id) = p
        THEN [dd[id] EXCEPT !.present = TRUE, !.content = <<>>]
        ELSE dd[id]]

\* the tree after _rebuild_index(); save_index is not reached when the
\* build raises
RebuildTree(file, root, dd) ==
    LET unlinked == IF file.exists THEN Unlink(index_file, dd) ELSE dd
    IN  IF BuildRaises(root, TRUE, dd) THEN unlinked ELSE Written(index_file, unlinked)

\* the tree after the index handling of find_duplicates
TreeAfter(fi, file, root, a, dd) ==
    IF a.rebuild THEN RebuildTree(file, root, dd)
    ELSE IF fi = <<>> /\ ~ LoadSucceeds(file, root) /\ ~ BuildRaises(root, a.recursive, dd)
    THEN Written(index_file, dd)
    ELSE dd

----------------------------------------------------------------------------
(* Report Writer and the script that deletes from the report.              *)

NL == "\n"

Unchecked == <<"-", " ", "[", " ", "]", " ">>
Checked == <<"-", " ", "[", "x", "]", " ">>

\* what export_to_markdown writes before the first group
ReportHeader(root) ==
    << <<"#", " ", "U+91CD", "U+590D", "U+6587", "U+4EF6", "U+62A5", "U+544A">> \o <<NL>>,
       <<NL>>,
       <<"U+641C", "U+7D22", "U+76EE", "U+5F55", ":", " ">> \o root \o <<NL>>,
       <<"U+751F", "U+6210", "U+65F6", "U+95F4", ":", " ">> \o <<"%Y-%m-%d %H:%M:%S">> \o <<NL>>,
       <<NL>> >>

\* a writer that leaves out the rule between the groups
ReportBlockNoRule(entry) ==
    << Unchecked \o entry.kept \o <<NL>> >>
    \o [i \in 1..Len(entry.removed) |-> Checked \o entry.removed[i] \o <<NL>>]
    \o << <<NL>> >>

\* the lines written for one entry of the mapping
ReportBlock(entry) ==
    << Unchecked \o entry.kept \o <<NL>> >>
    \o [i \in 1..Len(entry.removed) |-> Checked \o entry.removed[i] \o <<NL>>]
    \o << <<NL>>, <<"-", "-", "-", NL>>, <<NL>> >>

\* export_to_markdown(duplicates): the lines of the report file
export_to_markdown(dups, root) ==
    ReportHeader(root) \o Concat([i \in 1..Len(dups) |-> ReportBlock(dups[i])])

Whitespace == {" ", NL, "\t", "\r"}

RECURSIVE LStrip(_)
LStrip(q) == IF q # <<>> /\ Head(q) \in Whitespace THEN LStrip(Tail(q)) ELSE q

RECURSIVE RStrip(_)
RStrip(q) ==
    IF q # <<>> /\ q[Len(q)] \in Whitespace THEN RStrip(SubSeq(q, 1, Len(q) - 1)) ELSE q

\* s.strip()
PyStrip(q) == RStrip(LStrip(q))

\* line.split('] ')[1].strip()
ExtractPath(line) == PyStrip(SplitOn(line, <<"]", " ">>)[2])

\* line.startswith('- [x]')
IsCheckedLine(line) == StartsWith(line, <<"-", " ", "[", "x", "]">>)

\* the paths remove_duplicates_on_report reads from the checked lines
ExtractedPaths(lines) ==
    LET checked == SelectSeq(lines, IsCheckedLine)
    IN  [i \in 1..Len(checked) |-> ExtractPath(checked[i])]

\* send2trash.send2trash(p): the file, or the directory with all it holds,
\* leaves the tree
Trashed(p, dd) ==
    [id \in DupIds |->
        IF DupPath(id) = p \/ IsUnder(DupPath(id), p)
        THEN [dd[id] EXCEPT !.present = FALSE]
        ELSE dd[id]]

RECURSIVE RemoveAll(_, _, _)
\* the loop of remove_duplicates_on_report over the extracted paths: the
\* tree and the list of paths moved to the trash after it
RemoveAll(paths, dd, moved) ==
    IF paths = <<>> THEN [dd |-> dd, moved |-> moved]
    ELSE IF PathExists(Head(paths), dd)
         THEN RemoveAll(Tail(paths), Trashed(Head(paths), dd), Append(moved, Head(paths)))
         ELSE RemoveAll(Tail(paths), dd, moved)

----------------------------------------------------------------------------
(* The duplicate finder, the report and the deletion script as a state     *)
(* machine.                                                                *)

IncludeArgs == { NoneArg, ListArg(<< <<>>, <<"k">> >>) }
ExcludeArgs == { NoneArg, StrArg(<<"t">>) }

\* the arguments of find_duplicates
FindArgs ==
    [include : IncludeArgs, exclude : ExcludeArgs, shortest : BOOLEAN,
     compare : BOOLEAN, recursive : BOOLEAN, rebuild : BOOLEAN]

NoArgs == [include |-> NoneArg, exclude |-> NoneArg, shortest |-> TRUE,
           compare |-> TRUE, recursive |-> TRUE, rebuild |-> FALSE]

\* the search scripts' side while the duplicate finder runs
SearchIdle ==
    /\ script = "none"
    /\ disk = {}
    /\ index = [r \in SearchRoots |-> AbsentFile]
    /\ cache = NoCache
    /\ gens = 0

\* DuplicateFinder(root_dir) has been constructed: no index in memory, none
\* on disk, every file of the tree in place
DupInit ==
    /\ SearchIdle
    /\ ddisk = [id \in DupIds |->
                  [present |-> TRUE, content |-> DupFiles[id].content, readable |-> TRUE,
                   denied |-> FALSE]]
    /\ fileIndex = <<>>
    /\ indexFile = NoIndexFile
    /\ duplicates = <<>>
    /\ report = [exists |-> FALSE, lines |-> <<>>]
    /\ trash = <<>>
    /\ fsChanges = 0
    /\ last = [op |-> "new", args |-> NoArgs, extracted |-> <<>>, disturbed |-> FALSE,
               raised |-> FALSE, root |-> DupRoot]

\* a later run of the script constructs DuplicateFinder(root_dir, rebuild_index)
\* for a root whose index file is the one in indexFile; report and trash are
\* from then on those of the new run
NewFinderFor(root, rebuild) ==
    /\ script = "none"
    /\ last.op # "new" \/ last.raised
    /\ generate_index_name(root) = generate_index_name(last.root)
    /\ fileIndex' = IF rebuild THEN build_file_index(<<>>, root, TRUE, ddisk) ELSE <<>>
    /\ indexFile' = IF ~ rebuild THEN indexFile
                    ELSE IF BuildRaises(root, TRUE, ddisk) THEN NoIndexFile
                    ELSE save_index(fileIndex', root)
    /\ duplicates' = <<>>
    /\ report' = [exists |-> FALSE, lines |-> <<>>]
    /\ trash' = <<>>
    /\ last' = [op |-> "new", args |-> [NoArgs EXCEPT !.rebuild = rebuild],
                extracted |-> <<>>, disturbed |-> FALSE,
                raised |-> rebuild /\ BuildRaises(root, TRUE, ddisk),
                root |-> root]
    /\ ddisk' = IF rebuild THEN RebuildTree(indexFile, root, ddisk) ELSE ddisk
    /\ UNCHANGED fsChanges
    /\ UNCHANGED <<script, disk, index, cache, gens>>

\* a later run of the script on the same root
NewFinder(rebuild) == NewFinderFor(last.root, rebuild)

\* finder.find_duplicates(include_path, exclude_path, shortest_path,
\*                        compare_content, recursive, rebuild_index)
FindDuplicates(a) ==
    /\ last.op = "new"
    /\ ~ last.raised
    /\ fileIndex' = IndexAfter(fileIndex, indexFile, last.root, a, ddisk)
    /\ indexFile' = IndexFileAfter(fileIndex, indexFile, last.root, a, ddisk)
    /\ ddisk' = TreeAfter(fileIndex, indexFile, last.root, a, ddisk)
    /\ duplicates' = IF FindRaises(fileIndex, indexFile, last.root, a, ddisk) THEN <<>>
                     ELSE GroupBuckets(<<>>, fileIndex', last.root, a, ddisk')
    /\ last' = [op |-> "find", args |-> a, extracted |-> <<>>, disturbed |-> FALSE,
                raised |-> FindRaises(fileIndex, indexFile, last.root, a, ddisk),
                root |-> last.root]
    /\ UNCHANGED <<report, trash, fsChanges>>
    /\ UNCHANGED <<script, disk, index, cache, gens>>

\* finder.export_to_markdown(duplicates) on the mapping just returned
ExportToMarkdown ==
    /\ last.op = "find"
    /\ ~ last.raised
    /\ report' = [exists |-> TRUE, lines |-> export_to_markdown(duplicates, last.root)]
    /\ last' = [last EXCEPT !.op = "export", !.disturbed = FALSE]
    /\ ddisk' = Written(report_file, ddisk)
    /\ UNCHANGED <<fileIndex, indexFile, duplicates, trash, fsChanges>>
    /\ UNCHANGED <<script, disk, index, cache, gens>>

\* remove_duplicates_on_report(report_file_path)
RemoveDuplicatesOnReport ==
    /\ last.op = "export"
    /\ LET paths == ExtractedPaths(report.lines)
           done == RemoveAll(paths, ddisk, <<>>)
       IN  /\ ddisk' = done.dd
           /\ trash' = done.moved
           /\ last' = [last EXCEPT !.op = "remove", !.extracted = paths,
                                    !.disturbed = FALSE]
    /\ UNCHANGED <<fileIndex, indexFile, duplicates, report, fsChanges>>
    /\ UNCHANGED <<script, disk, index, cache, gens>>

\* the environment deletes a file of the tree
DeleteDupFile(id) ==
    /\ script = "none"
    /\ fsChanges < MaxFsChanges
    /\ ddisk[id].present
    /\ ddisk' = [ddisk EXCEPT ![id].present = FALSE]
    /\ fsChanges' = fsChanges + 1
    /\ last' = [last EXCEPT !.disturbed = TRUE]
    /\ UNCHANGED <<fileIndex, indexFile, duplicates, report, trash>>
    /\ UNCHANGED <<script, disk, index, cache, gens>>

\* the environment rewrites a file of the tree
RewriteDupFile(id) ==
    /\ script = "none"
    /\ fsChanges < MaxFsChanges
    /\ ddisk[id].present
    /\ ddisk' = [ddisk EXCEPT ![id].content = Rewritten(@)]
    /\ fsChanges' = fsChanges + 1
    /\ last' = [last EXCEPT !.disturbed = TRUE]
    /\ UNCHANGED <<fileIndex, indexFile, duplicates, report, trash>>
    /\ UNCHANGED <<script, disk, index, cache, gens>>

DupNext ==
    \/ \E rebuild \in BOOLEAN : NewFinder(rebuild)
    \/ \E a \in FindArgs : FindDuplicates(a)
    \/ ExportToMarkdown
    \/ RemoveDuplicatesOnReport
    \/ \E id \in DupIds : DeleteDupFile(id)
    \/ \E id \in DupIds : RewriteDupFile(id)

DupSpec == DupInit /\ [][DupNext]_vars

\* a finder for the tree or for a root that does not exist; in the tree one
\* file cannot be opened for reading, or lies in a folder that cannot be
\* searched, so that its stat raises PermissionError
ScanInit ==
    /\ SearchIdle
    /\ \E id \in DupIds, how \in {"unreadable", "denied"} :
          ddisk = [i \in DupIds |->
                     [present |-> TRUE, content |-> DupFiles[i].content,
                      readable |-> ~ (i = id /\ how = "unreadable"),
                      denied |-> (i = id /\ how = "denied")]]
    /\ fileIndex = <<>>
    /\ indexFile = NoIndexFile
    /\ duplicates = <<>>
    /\ report = [exists |-> FALSE, lines |-> <<>>]
    /\ trash = <<>>
    /\ fsChanges = 0
    /\ last \in [op : {"new"}, args : {NoArgs}, extracted : {<<>>}, disturbed : {FALSE},
                 raised : {FALSE}, root : {DupRoot, MissingRoot}]

ScanNext ==
    \/ \E rebuild \in BOOLEAN : NewFinder(rebuild)
    \/ \E a \in FindArgs : FindDuplicates(a)

\* the duplicate finder on trees with files it may not access
ScanSpec == ScanInit /\ [][ScanNext]_vars

\* the strings the key computation is applied to
MaxLen == 3
Alphabet == {"A", "b", "-", "U+0130", "U+4E2D"}
Strings == UNION { [1..k -> Alphabet] : k \in 0..MaxLen }

\* a title or a stem s is given
NormInit ==
    /\ script = "normalize"
    /\ disk = {}
    /\ index = [r \in SearchRoots |-> AbsentFile]
    /\ cache = NoCache
    /\ gens = 0
    /\ fsChanges = 0
    /\ DupIdle
    /\ last \in [op : {"input"}, s : Strings, key : {<<>>}]

\* name = clean_filename(filename); if not name: name = filename.lower()
Normalize ==
    /\ script = "normalize"
    /\ last.op = "input"
    /\ last' = [op |-> "normalize", s |-> last.s, key |-> SearchName(last.s)]
    /\ UNCHANGED <<script, disk, index, cache, gens, fsChanges>>
    /\ UNCHANGED dupVars

\* the key is given as a title again
NormalizeKey ==
    /\ script = "normalize"
    /\ last.op = "normalize"
    /\ last' = [op |-> "normalize", s |-> last.key, key |-> SearchName(last.key)]
    /\ UNCHANGED <<script, disk, index, cache, gens, fsChanges>>
    /\ UNCHANGED dupVars

NormNext == Normalize \/ NormalizeKey

\* the key computation alone
NormSpec == NormInit /\ [][NormNext]_vars

----------------------------------------------------------------------------
(* Functions without state, applied to inputs drawn from bounded sets.     *)

\* the depth of the paths the Path Filter is applied to
MaxDepth == 3

\* names of folders and files: reserved by the marker, on the deny-list, and
\* near misses of both
PathSegments ==
    { <<"$", "a">>, <<"a", "$">>, <<"W", "i", "n", "d", "o", "w", "s">>,
      <<"w", "i", "n", "d", "o", "w", "s">>,
      <<"W", "i", "n", "d", "o", "w", "s", ".", "t", "x", "t">> }

\* the absolute path with the given segments
PathOf(segments) == Concat([i \in 1..Len(segments) |-> <<"/">> \o segments[i]])

\* _is_valid_file(path) for an entry that rglob yields: a file or a folder
is_valid_file(path, kind) == kind = "file" /\ IsValidFile(path)

\* the length of the short root paths, without the anchor
MaxRootLen == 3

\* a root path too long to be used as a name, with the separator sep in its
\* last folder name
LongRoot(sep) == <<"/">> \o [i \in 1..NameLimit |-> IF i = NameLimit - 1 THEN sep ELSE "a"]

\* resolved absolute paths: no empty segment, no trailing separator
RootPaths ==
    { <<"/">> \o s : s \in { t \in UNION { [1..k -> {"a", "_", "/"}] : k \in 1..MaxRootLen } :
                               /\ t[1] # "/"
                               /\ t[Len(t)] # "/"
                               /\ ~ Contains(t, <<"/", "/">>) } }
      \cup {LongRoot("/"), LongRoot("_")}

\* the length of the file names and the sizes the index key is built from
MaxNameLen == 2
MaxSize == 11

\* FileInfo records of two folders, with names made of digits and underscores
FileInfos(folder) ==
    { [path |-> <<"/", folder, "/">> \o n, size |-> z, name |-> n] :
        n \in UNION { [1..k -> {"1", "_"}] : k \in 1..MaxNameLen }, z \in 0..MaxSize }

\* the arguments are given: an entry of a walk by its segments from the
\* anchor on and by what it is, two roots, or two files of different folders
FunctionInit ==
    /\ script = "function"
    /\ disk = {}
    /\ index = [r \in SearchRoots |-> AbsentFile]
    /\ cache = NoCache
    /\ gens = 0
    /\ fsChanges = 0
    /\ DupIdle
    /\ last \in [op : {"input"}, fn : {"is_valid_file"},
                 segments : UNION { [1..k -> PathSegments] : k \in 1..MaxDepth },
                 kind : {"file", "dir"}, valid : {FALSE}]
            \cup [op : {"input"}, fn : {"generate_index_name"},
                  a : RootPaths, b : RootPaths, na : {<<>>}, nb : {<<>>}]
            \cup [op : {"input"}, fn : {"build_file_index"},
                  a : FileInfos("1"), b : FileInfos("2")]

\* _is_valid_file(p) for an entry p of the walk
IsValidFileCall ==
    /\ script = "function"
    /\ last.op = "input"
    /\ last.fn = "is_valid_file"
    /\ last' = [last EXCEPT !.op = "done",
                            !.valid = is_valid_file(PathOf(last.segments), last.kind)]
    /\ UNCHANGED <<script, disk, index, cache, gens, fsChanges>>
    /\ UNCHANGED dupVars

\* self._generate_index_name(self.root_dir) in two finders
GenerateIndexNameCall ==
    /\ script = "function"
    /\ last.op = "input"
    /\ last.fn = "generate_index_name"
    /\ last' = [last EXCEPT !.op = "done",
                            !.na = generate_index_name(last.a),
                            !.nb = generate_index_name(last.b)]
    /\ UNCHANGED <<script, disk, index, cache, gens, fsChanges>>
    /\ UNCHANGED dupVars

\* the body of the loop of build_file_index for two files, one after the other
IndexKeyCall ==
    /\ script = "function"
    /\ last.op = "input"
    /\ last.fn = "build_file_index"
    /\ fileIndex' = IndexAddAll(fileIndex, <<last.a, last.b>>)
    /\ last' = [last EXCEPT !.op = "done"]
    /\ UNCHANGED <<ddisk, indexFile, duplicates, report, trash>>
    /\ UNCHANGED <<script, disk, index, cache, gens, fsChanges>>

FunctionNext ==
    \/ IsValidFileCall
    \/ GenerateIndexNameCall
    \/ IndexKeyCall

\* the functions alone
FunctionSpec == FunctionInit /\ [][FunctionNext]_vars

\* two roots whose index files have the same name: the folder t of the tree
\* and a folder d_t, which holds no file
CollidingRoots == { <<"/", "d", "/", "t">>, <<"/", "d", "_", "t">> }

\* a finder for one of the two roots; every file of the tree in place
RootsInit ==
    /\ SearchIdle
    /\ ddisk = [id \in DupIds |->
                  [present |-> TRUE, content |-> DupFiles[id].content, readable |-> TRUE,
                   denied |-> FALSE]]
    /\ fileIndex = <<>>
    /\ indexFile = NoIndexFile
    /\ duplicates = <<>>
    /\ report = [exists |-> FALSE, lines |-> <<>>]
    /\ trash = <<>>
    /\ fsChanges = 0
    /\ last \in [op : {"new"}, args : {NoArgs}, extracted : {<<>>}, disturbed : {FALSE},
                 raised : {FALSE}, root : CollidingRoots]

RootsNext ==
    \/ \E root \in CollidingRoots, rebuild \in BOOLEAN : NewFinderFor(root, rebuild)
    \/ \E a \in FindArgs : FindDuplicates(a)

\* runs of the duplicate finder on two roots that share one index file
RootsSpec == RootsInit /\ [][RootsNext]_vars

\* a search script in front of the complete trees, or a duplicate finder
CoreInit == (SearchInit /\ disk = FileIds) \/ DupInit

\* the operations of the core and the deletion script, on trees that
\* nothing else changes
CoreNext ==
    \/ SearchNext
    \/ \E rebuild \in BOOLEAN : NewFinder(rebuild)
    \/ \E a \in FindArgs : FindDuplicates(a)
    \/ ExportToMarkdown
    \/ RemoveDuplicatesOnReport

\* the whole core: the search scripts or the duplicate finder
CoreSpec == CoreInit /\ [][CoreNext]_vars

----------------------------------------------------------------------------
(* Claims about the Duplicate Grouper and the report, checked under        *)
(* DupSpec.                                                                *)

SeqToSet(q) == { q[i] : i \in 1..Len(q) }

\* find_duplicates has just returned the mapping in duplicates and the tree
\* is as it was during the call
Found == last.op = "find" /\ ~ last.disturbed /\ ~ last.raised

\* the records of the index in memory
IndexRecords ==
    UNION { SeqToSet(fileIndex[i].files) : i \in 1..Len(fileIndex) }

\* the record of the index for a path
RecordOf(p) == CHOOSE f \in IndexRecords : f.path = p

\* the members of an entry of the mapping: the kept path and its removal list
Members(entry) == {entry.kept} \cup SeqToSet(entry.removed)

Entries == SeqToSet(duplicates)

\* C7: with compare_content=True every path of a removal list has the same
\* content hash, the same name and the same size as the kept path it is
\* listed under.
C7_SameContent ==
    (Found /\ last.args.compare) =>
        \A e \in Entries : \A p \in SeqToSet(e.removed) :
            /\ calculate_file_hash(IdOf(p), ddisk) = calculate_file_hash(IdOf(e.kept), ddisk)
            /\ RecordOf(p).name = RecordOf(e.kept).name
            /\ RecordOf(p).size = RecordOf(e.kept).size

\* a content-checked run that reported a group while the bucket also held a
\* file of the same name and size with other bytes
C7_Witness ==
    /\ Found
    /\ last.args.compare
    /\ \E e \in Entries : \E f \in IndexRecords :
          /\ e.removed # <<>>
          /\ f.name = RecordOf(e.kept).name
          /\ f.size = RecordOf(e.kept).size
          /\ ddisk[IdOf(f.path)].present
          /\ ddisk[IdOf(f.path)].content # ddisk[IdOf(e.kept)].content

\* the path contains one of the exclude keywords
HasExcludeKeyword(p) ==
    \E i \in 1..Len(last.args.exclude.words) : Contains(p, last.args.exclude.words[i])

\* C8: the kept path of a group contains no exclude keyword when some member
\* of the group contains none, whatever include keywords and length
\* preference were given.
C8_ExcludedNeverKept ==
    Found =>
        \A e \in Entries :
            (\E m \in Members(e) : ~ HasExcludeKeyword(m)) => ~ HasExcludeKeyword(e.kept)

\* a group with a member in an excluded folder, selected with an include
\* keyword and the preference for the longest path
C8_Witness ==
    /\ Found
    /\ last.args.include # NoneArg
    /\ ~ last.args.shortest
    /\ \E e \in Entries : \E m \in Members(e) :
          HasExcludeKeyword(m) /\ ~ HasExcludeKeyword(e.kept)

\* the records that take part in grouping
Surviving ==
    { f \in IndexRecords :
        /\ StillThere(f, last.root, last.args.recursive, ddisk)
        /\ last.args.compare => ddisk[IdOf(f.path)].readable }

\* two records belong to one duplicate group
SameGroup(f, g) ==
    /\ f.name = g.name
    /\ f.size = g.size
    /\ last.args.compare =>
          ddisk[IdOf(f.path)].content = ddisk[IdOf(g.path)].content

\* the duplicate groups, as sets of paths
DuplicateGroups ==
    { G \in { { g.path : g \in { h \in Surviving : SameGroup(f, h) } } : f \in Surviving } :
        Cardinality(G) > 1 }

\* C9: every duplicate group has exactly one kept member, and the removal
\* list recorded for it holds exactly the other members, each once.
C9_OneKeptPerGroup ==
    Found =>
        /\ \A G \in DuplicateGroups :
              \E i \in 1..Len(duplicates) :
                 /\ duplicates[i].kept \in G
                 /\ SeqToSet(duplicates[i].removed) = G \ {duplicates[i].kept}
                 /\ Len(duplicates[i].removed) = Cardinality(G) - 1
                 /\ \A j \in 1..Len(duplicates) : duplicates[j].kept \in G => j = i
        /\ \A e \in Entries : Members(e) \in DuplicateGroups

\* a group recorded although every member's path contains an exclude keyword
C9_Witness ==
    /\ Found
    /\ \E e \in Entries :
          /\ e.removed # <<>>
          /\ \A m \in Members(e) : HasKeyword(m, KeywordList(last.args.exclude))

\* C10: the paths remove_duplicates_on_report extracts from a report are
\* exactly the removal candidates of the mapping the report was written
\* from, character for character, and no kept path is among them.
C10_RoundTrip ==
    last.op = "remove" =>
        /\ SeqToSet(last.extracted) = UNION { SeqToSet(e.removed) : e \in Entries }
        /\ \A e \in Entries : e.kept \notin SeqToSet(last.extracted)

\* the lines of the report that start with a given mark
Marked(mark) == SelectSeq(report.lines, LAMBDA l : StartsWith(l, mark))

RECURSIVE BlockStart(_)
\* the number of report lines before the block of the i-th entry
BlockStart(i) ==
    IF i = 1 THEN Len(ReportHeader(last.root))
    ELSE BlockStart(i - 1) + Len(duplicates[i - 1].removed) + 4

CoreStep ==
    \/ script' # "none" /\ last'.op \in {"search", "generate"}
    \/ script' = "none" /\ last'.op \in {"new", "find", "export"} /\ last'.op # last.op

\* C12: generate_file_list, search_file, find_duplicates and
\* export_to_markdown leave every file of the scanned trees as it is: none
\* is deleted, created or rewritten; only the index file and the report
\* change.
C12_TreeUntouched ==
    [][CoreStep => (disk' = disk /\ ddisk' = ddisk)]_vars

\* a forced rebuild has removed and rewritten the index file, a report has
\* been written, and every file of the tree is as it was at the start
C12_Witness ==
    /\ last.op = "export"
    /\ last.args.rebuild
    /\ indexFile.exists
    /\ report.exists
    /\ fsChanges = 0
    /\ \A id \in DupIds : ddisk[id].present /\ ddisk[id].content = DupFiles[id].content

\* C13: the key computation is idempotent: the key of a key is that key.
C13_Idempotent ==
    (script = "normalize" /\ last.op = "normalize") => SearchName(last.key) = last.key

\* C14: the key of a non-empty title is never empty, and no stem is stored
\* in the SearchCache under an empty key.
C14_NoEmptyKey ==
    /\ (Searched /\ last.filename # <<>>) => LastName # <<>>
    /\ cache.built =>
          \A x \in {EPUB, PDF, TXT} : \A i \in 1..Len(cache.entries[x]) :
             PathStem(cache.entries[x][i].path) # <<>> => cache.entries[x][i].stem # <<>>

\* the paths held by a cache
CachedPaths(c) ==
    UNION { { c.entries[x][i].path : i \in 1..Len(c.entries[x]) } : x \in {EPUB, PDF, TXT} }

\* the files of a tree that the scan accepts
Eligible(root, dsk) ==
    { id \in dsk : IsUnder(SearchFiles[id].path, root) /\ IsValidFile(SearchFiles[id].path) }

\* C15: when the first search call finds the index of its root absent or
\* empty, the index is rebuilt before matching and the search is answered
\* from it, and it covers the root: every eligible file under the root is
\* searchable, also when the call names folders_to_update.
C15_RebuildCoversRoot ==
    [][ ( /\ last'.op = "search"
          /\ last'.ret # ValueError
          /\ ~ cache.built
          /\ check_file_list_update(index[last'.root]) )
        => ( /\ index'[last'.root].exists
             /\ cache'.built
             /\ \A id \in Eligible(last'.root, disk) :
                   SearchFiles[id].path \in CachedPaths(cache') )
      ]_vars

\* C16: a search call that fails on a malformed line of the index leaves no
\* SearchCache behind, so that no later call is answered from the records
\* that precede the malformed line.
C16_NoPartialCache ==
    (last.op = "search" /\ last.ret = ValueError) => ~ cache.built

\* the paths of the index in memory
IndexedPaths == { f.path : f \in IndexRecords }

\* C17: a permission error for one entry during the scan of
\* build_file_index is recovered locally: the scan does not abort and every
\* other file of the tree is indexed.
C17_ScanRecovers ==
    (script = "none" /\ last.op \in {"new", "find"} /\ last.args.rebuild) =>
        /\ ~ last.raised
        /\ \A id \in DupIds :
              (ddisk[id].present /\ ~ ddisk[id].denied /\ IsUnder(DupPath(id), last.root))
                 => DupPath(id) \in IndexedPaths

\* C18: find_duplicates on a root directory that does not exist fails
\* instead of returning an empty result, and writes no index.
C18_MissingRootFails ==
    (script = "none" /\ last.op = "find" /\ ~ PathExists(last.root, ddisk)) =>
        (last.raised /\ ~ indexFile.exists)

\* the paths that occur in the result of find_duplicates
ResultPaths == UNION { Members(e) : e \in Entries }

\* C19: with compare_content=True a file that cannot be read is left out of
\* every group, neither kept nor removal candidate; find_duplicates returns
\* normally and the readable files are grouped as they would be without it.
C19_UnreadableLeftOut ==
    ( /\ script = "none"
      /\ last.op = "find"
      /\ last.args.compare
      /\ \A id \in DupIds : ~ ddisk[id].denied )
    => /\ ~ last.raised
       /\ \A id \in DupIds : ~ ddisk[id].readable => DupPath(id) \notin ResultPaths
       /\ \A G \in DuplicateGroups : \E e \in Entries : Members(e) = G

\* an unreadable file whose bucket holds two readable files of equal
\* content, which are reported as a group without it
C19_Witness ==
    /\ script = "none"
    /\ last.op = "find"
    /\ last.args.compare
    /\ ~ last.raised
    /\ \E id \in DupIds : \E e \in Entries :
          /\ ~ ddisk[id].readable
          /\ ddisk[id].present
          /\ DupPath(id) \in IndexedPaths
          /\ RecordOf(DupPath(id)).name = RecordOf(e.kept).name
          /\ RecordOf(DupPath(id)).size = RecordOf(e.kept).size
          /\ e.removed # <<>>
          /\ DupPath(id) \notin Members(e)

\* the records of a bucket of the index whose path exists
ExistingIn(i) ==
    { j \in 1..Len(fileIndex[i].files) : PathExists(fileIndex[i].files[j].path, ddisk) }

\* C20: a record whose path no longer exists when find_duplicates groups
\* never appears in its result, and a bucket with fewer than two records
\* that still exist yields no group.
C20_VanishedLeftOut ==
    Found =>
        /\ \A p \in ResultPaths : PathExists(p, ddisk)
        /\ \A i \in 1..Len(fileIndex) :
              Cardinality(ExistingIn(i)) < 2 =>
                 \A j \in 1..Len(fileIndex[i].files) :
                    fileIndex[i].files[j].path \notin ResultPaths

\* an index loaded from an earlier run: a bucket of several records of which
\* one is left on disk, and another bucket that still yields a group
\* although one of its records is gone
C20_Witness ==
    /\ Found
    /\ \E i \in 1..Len(fileIndex) :
          Len(fileIndex[i].files) >= 2 /\ Cardinality(ExistingIn(i)) = 1
    /\ \E p \in IndexedPaths : ~ PathExists(p, ddisk)

\* a group reported from a bucket one of whose records is gone
C20_GroupWitness ==
    /\ Found
    /\ \E e \in Entries : \E f \in IndexRecords :
          /\ f.name = RecordOf(e.kept).name
          /\ f.size = RecordOf(e.kept).size
          /\ ~ PathExists(f.path, ddisk)

\* the path contains one of the include keywords; an empty keyword is none
HasIncludeKeyword(p) ==
    \E i \in 1..Len(last.args.include.words) :
       /\ last.args.include.words[i] # <<>>
       /\ Contains(p, last.args.include.words[i])

\* the members of a group the exclusion rule leaves
NotExcluded(e) ==
    LET clean == { m \in Members(e) : ~ HasExcludeKeyword(m) }
    IN  IF clean = {} THEN Members(e) ELSE clean

\* the members of a group left after exclusion and inclusion
FinalCandidates(e) ==
    LET wanted == { m \in NotExcluded(e) : HasIncludeKeyword(m) }
    IN  IF wanted = {} THEN NotExcluded(e) ELSE wanted

\* C21: after exclusion the kept path contains an include keyword when some
\* remaining member does, and among the final candidates it has minimal
\* length with prefer_shortest and maximal length otherwise.
C21_IncludeAndLength ==
    Found =>
        \A e \in Entries :
            /\ e.kept \in FinalCandidates(e)
            /\ \A m \in FinalCandidates(e) :
                  IF last.args.shortest
                  THEN Len(e.kept) <= Len(m)
                  ELSE Len(e.kept) >= Len(m)

\* a group where the include keyword narrowed the choice: the kept path is
\* longer than a member without the keyword although the shortest is wanted
C21_Witness ==
    /\ Found
    /\ last.args.shortest
    /\ \E e \in Entries : \E m \in NotExcluded(e) :
          /\ HasIncludeKeyword(e.kept)
          /\ ~ HasIncludeKeyword(m)
          /\ Len(m) < Len(e.kept)

\* a group where the longest of several final candidates was kept
C21_LongestWitness ==
    /\ Found
    /\ ~ last.args.shortest
    /\ \E e \in Entries : \E m \in FinalCandidates(e) : Len(m) < Len(e.kept)

\* the characters C23 allows in a key
AllowedInKey ==
    { c \in CjkIdeographs \cup AsciiLetters \cup AsciiDigits \cup {"_"} : LowerChar(c) = <<c>> }

\* C23: clean_filename leaves only CJK ideographs, lower-case ASCII letters,
\* ASCII digits and the underscore; every other character is removed.
C23_OnlyAllowedCharacters ==
    (script = "normalize" /\ last.op = "normalize") =>
        \A i \in 1..Len(clean_filename(last.s)) : clean_filename(last.s)[i] \in AllowedInKey

\* the Path Filter has been applied to an entry
Filtered == script = "function" /\ last.fn = "is_valid_file" /\ last.op = "done"

\* C22: an entry is eligible if and only if it is a regular file and none of
\* its segments, from the ancestors of the scan root down to the file name,
\* starts with '$' or is, letter for letter, a name of the deny-list.
C22_PathFilter ==
    Filtered =>
        (last.valid <=>
            /\ last.kind = "file"
            /\ \A i \in 1..Len(last.segments) :
                  /\ Head(last.segments[i]) # "$"
                  /\ last.segments[i] \notin SKIP_DIRS)

\* a regular file rejected for its own name alone
C22_Witness ==
    /\ Filtered
    /\ last.kind = "file"
    /\ ~ last.valid
    /\ Len(last.segments) > 1
    /\ \A i \in 1..(Len(last.segments) - 1) :
          Head(last.segments[i]) # "$" /\ last.segments[i] \notin SKIP_DIRS

\* a regular file rejected for the topmost ancestor alone
C22_AncestorWitness ==
    /\ Filtered
    /\ last.kind = "file"
    /\ ~ last.valid
    /\ Len(last.segments) = MaxDepth
    /\ last.segments[1] \in SKIP_DIRS
    /\ \A i \in 2..Len(last.segments) :
          Head(last.segments[i]) # "$" /\ last.segments[i] \notin SKIP_DIRS

\* a regular file accepted below a folder that differs from a deny-list name
\* in case only, with '$' inside a name
C22_NearMissWitness ==
    /\ Filtered
    /\ last.valid
    /\ \E i, j \in 1..Len(last.segments) :
          /\ last.segments[i] = <<"w", "i", "n", "d", "o", "w", "s">>
          /\ last.segments[j] = <<"a", "$">>

\* the file of a record lies directly in the root
DirectChild(f) ==
    IsUnder(f.path, last.root) /\ NumParents(f.path) = NumParents(last.root) + 1

\* C24: with recursive=False a record whose file exists takes part in
\* grouping if and only if the file is a direct child of the root.
C24_DirectChildrenOnly ==
    (Found /\ ~ last.args.recursive) =>
        \A f \in IndexRecords :
            PathExists(f.path, ddisk) =>
                (StillThere(f, last.root, last.args.recursive, ddisk) <=> DirectChild(f))

\* the paths a scan of the root finds in the tree
TreePaths(recursive, dd) ==
    { DupPath(id) : id \in { i \in DupIds : /\ dd[i].present
                                            /\ IsUnder(DupPath(i), last.root)
                                            /\ recursive \/ DirectChild([path |-> DupPath(i)]) } }

\* the step has left a fresh index of the tree in memory and in the index file
FreshIndex(recursive) ==
    /\ IndexedPaths' = TreePaths(recursive, ddisk)
    /\ indexFile'.exists
    /\ indexFile'.root_dir = last.root
    /\ LoadedIndex(indexFile') = fileIndex'

\* C25: find_duplicates without rebuild_index groups from the persisted
\* index when one can be loaded, whatever the tree holds by then, and leaves
\* the index file as it is; when none can be loaded, and always with
\* rebuild_index, it groups from a fresh index that it has persisted.
C25_PersistedIndexPreferred ==
    [][ (last.op = "new" /\ last'.op = "find" /\ ~ last'.raised) =>
            /\ IF last'.args.rebuild THEN FreshIndex(TRUE)
               ELSE IF LoadSucceeds(indexFile, last.root)
               THEN fileIndex' = LoadedIndex(indexFile) /\ indexFile' = indexFile
               ELSE FreshIndex(last'.args.recursive)
            /\ ResultPaths' \subseteq IndexedPaths' ]_vars

\* a run that grouped from a persisted index that the tree had outgrown
C25_Witness ==
    /\ Found
    /\ ~ last.args.rebuild
    /\ indexFile.exists
    /\ duplicates # <<>>
    /\ IndexedPaths # TreePaths(TRUE, ddisk)

\* a run with rebuild_index on a tree that has lost a file
C25_RebuildWitness ==
    /\ Found
    /\ last.args.rebuild
    /\ \E id \in DupIds : ~ ddisk[id].present
    /\ IndexedPaths = TreePaths(TRUE, ddisk)

\* C26: two distinct resolved root paths never get the same index file name.
C26_UniqueIndexNames ==
    (script = "function" /\ last.fn = "generate_index_name" /\ last.op = "done") =>
        (last.a # last.b => last.na # last.nb)

\* two records have been put into an empty index
Indexed == script = "function" /\ last.fn = "build_file_index" /\ last.op = "done"

\* C30: two records share a bucket of file_index if and only if they have
\* the same name and the same size, also when the names hold underscores
\* and digits.
C30_KeySeparatesRecords ==
    Indexed =>
        (Len(fileIndex) = 1 <=> (last.a.name = last.b.name /\ last.a.size = last.b.size))

\* two records in two buckets whose names and sizes read the same once
\* written one after the other
C30_Witness ==
    /\ Indexed
    /\ Len(fileIndex) = 2
    /\ last.a.name \o Digits(last.a.size) = last.b.name \o Digits(last.b.size)

\* two records of one size in two buckets, their names made of the same
\* digit and underscore in different order
C30_UnderscoreWitness ==
    /\ Indexed
    /\ Len(fileIndex) = 2
    /\ last.a.size = last.b.size
    /\ last.a.name = <<"1", "_">>
    /\ last.b.name = <<"_", "1">>

\* two records of one name and one size in one bucket
C30_SharedWitness ==
    /\ Indexed
    /\ Len(fileIndex) = 1
    /\ Len(fileIndex[1].files) = 2

\* C27: a finder never works on an index built for another root: the records
\* in memory are files of its own root, and a find_duplicates that meets the
\* index file of another root groups from a fresh index of its own root,
\* which it persists.
C27_OwnRootIndex ==
    [][ /\ script' = "none" => \A f \in IndexRecords' : IsUnder(f.path, last'.root)
        /\ ( /\ last.op = "new"
             /\ last'.op = "find"
             /\ ~ last'.raised
             /\ fileIndex = <<>>
             /\ indexFile.exists
             /\ indexFile.root_dir # last.root ) =>
                 FreshIndex(last'.args.rebuild \/ last'.args.recursive) ]_vars

\* a finder, nothing in memory yet, in front of an index file that records
\* the other root and holds records of it
C27_Witness ==
    /\ script = "none"
    /\ last.op = "new"
    /\ ~ last.raised
    /\ fileIndex = <<>>
    /\ indexFile.exists
    /\ indexFile.root_dir # last.root
    /\ indexFile.files # <<>>

\* find_duplicates has returned a group for the root that holds files, from
\* an index in which the other root does not occur
C27_GroupWitness ==
    /\ script = "none"
    /\ last.op = "find"
    /\ ~ last.args.rebuild
    /\ duplicates # <<>>
    /\ indexFile.root_dir = last.root
    /\ IndexedPaths = TreePaths(TRUE, ddisk)

\* C28: after generate_file_list(root) has written the index of the whole
\* tree, check_file_list_update(root) returns False, also when the tree
\* holds no eligible file.
C28_IndexNotMissingAfterBuild ==
    (script \in {Local, Older} /\ last.op = "generate" /\ last.folders = <<>>) =>
        ~ check_file_list_update(index[last.root])

\* C29: in the mapping find_duplicates returns no path is both a kept path
\* and a removal candidate, no path is in the removal lists of two kept
\* paths, and every kept path has at least one removal candidate.
C29_MappingWellFormed ==
    Found =>
        \A i, j \in 1..Len(duplicates) :
            /\ duplicates[i].kept \notin SeqToSet(duplicates[j].removed)
            /\ i # j => SeqToSet(duplicates[i].removed) \cap SeqToSet(duplicates[j].removed) = {}
            /\ i # j => duplicates[i].kept # duplicates[j].kept
            /\ duplicates[i].removed # <<>>

\* a mapping with two kept paths of one name and size, while the index also
\* holds a file without a duplicate
C29_Witness ==
    /\ Found
    /\ last.args.compare
    /\ \E i, j \in 1..Len(duplicates) :
          /\ i # j
          /\ RecordOf(duplicates[i].kept).name = RecordOf(duplicates[j].kept).name
          /\ RecordOf(duplicates[i].kept).size = RecordOf(duplicates[j].kept).size
    /\ \E f \in IndexRecords :
          /\ PathExists(f.path, ddisk)
          /\ f.path \notin ResultPaths

=============================================================================
